---- MODULE Spec2Model ----
(***************************************************************************)
(* Model of dashboard.py: the Streamlit script and the load_data pipeline  *)
(* (_standardize_columns, _extract_lat_lon, _aggregate_duplicates).        *)
(*                                                                         *)
(* A string is a sequence of one-character strings, so that strip, lower,  *)
(* split, substring search and number parsing are computed, not assumed.   *)
(* A cell value is a record [t, n, s]: t = "na" (NaN / pd.NA / None),      *)
(* t = "num" (a number, n) or t = "str" (a string, s).                     *)
(* A table (DataFrame) is [cols |-> <<names>>, rows |-> <<rows>>], each    *)
(* row a sequence of cells aligned with cols.                              *)
(* The model follows one run of the script; st.cache_data only saves a     *)
(* later run the same computation.                                         *)
(***************************************************************************)
EXTENDS Integers, Sequences, FiniteSets, TLC

VARIABLES pc, fileExists, rendered, raw, std, df, error, tbl, once, twice

vars == <<pc, fileExists, rendered, raw, std, df, error, tbl, once, twice>>

(***************************** bounds **************************************)
\* most rows a generated table holds
MaxRows == 2

(***************************** strings *************************************)
UpperChars == <<"A","B","C","D","E","F","G","H","I","J","K","L","M",
                "N","O","P","Q","R","S","T","U","V","W","X","Y","Z">>
LowerChars == <<"a","b","c","d","e","f","g","h","i","j","k","l","m",
                "n","o","p","q","r","s","t","u","v","w","x","y","z">>
DigitChars == <<"0","1","2","3","4","5","6","7","8","9">>
SpaceChars == {" ", "\t", "\n", "\r"}

\* code-point order of the characters the model uses (for sorting keys)
CharOrder == <<"\t", "\n", "\r", " ", "(", ")", ",", "/">> \o DigitChars
             \o UpperChars \o LowerChars

CharRank(c) == CHOOSE i \in 1..Len(CharOrder) : CharOrder[i] = c

IsDigit(c) == \E i \in 1..10 : DigitChars[i] = c

DigitVal(c) == (CHOOSE i \in 1..10 : DigitChars[i] = c) - 1

\* str.lower(), one character
LowerChar(c) ==
  IF \E i \in 1..26 : UpperChars[i] = c
  THEN LowerChars[CHOOSE i \in 1..26 : UpperChars[i] = c]
  ELSE c

\* str.lower()
lower(s) == [i \in 1..Len(s) |-> LowerChar(s[i])]

RECURSIVE lstrip(_)
lstrip(s) ==
  IF s # <<>> /\ s[1] \in SpaceChars THEN lstrip(Tail(s)) ELSE s

RECURSIVE rstrip(_)
rstrip(s) ==
  IF s # <<>> /\ s[Len(s)] \in SpaceChars
  THEN rstrip(SubSeq(s, 1, Len(s) - 1))
  ELSE s

\* str.strip()
strip(s) == rstrip(lstrip(s))

\* str.startswith(prefix)
startswith(s, prefix) ==
  Len(prefix) <= Len(s) /\ SubSeq(s, 1, Len(prefix)) = prefix

\* sub in s
contains(s, sub) ==
  \E i \in 1..(Len(s) - Len(sub) + 1) : SubSeq(s, i, i + Len(sub) - 1) = sub

\* s.split(","): the parts between the commas, empty parts kept
RECURSIVE split(_, _)
split(s, sep) ==
  IF \A i \in 1..Len(s) : s[i] # sep
  THEN <<s>>
  ELSE LET k == CHOOSE i \in 1..Len(s) :
                  s[i] = sep /\ \A j \in 1..(i - 1) : s[j] # sep
       IN  <<SubSeq(s, 1, k - 1)>> \o split(SubSeq(s, k + 1, Len(s)), sep)

RECURSIVE DecimalValue(_)
DecimalValue(s) ==
  IF s = <<>> THEN 0
  ELSE 10 * DecimalValue(SubSeq(s, 1, Len(s) - 1)) + DigitVal(s[Len(s)])

\* Python's float(s) on the model's alphabet (digits, letters, blanks,
\* punctuation): surrounding whitespace is ignored, a non-empty run of
\* digits is its value, anything else raises ValueError (ok = FALSE).
float(s) ==
  LET b == strip(s)
  IN  IF b # <<>> /\ \A i \in 1..Len(b) : IsDigit(b[i])
      THEN [ok |-> TRUE, v |-> DecimalValue(b)]
      ELSE [ok |-> FALSE, v |-> 0]

(***************************** cell values *********************************)
NA == [t |-> "na", n |-> 0, s |-> <<>>]
Num(k) == [t |-> "num", n |-> k, s |-> <<>>]
Str(x) == [t |-> "str", n |-> 0, s |-> x]

\* pd.isna(value)
isna(v) == v.t = "na"

\* pd.to_numeric(value, errors="coerce"), one cell
to_numeric(v) ==
  IF v.t = "num" THEN v
  ELSE IF v.t = "str" /\ float(v.s).ok THEN Num(float(v.s).v)
  ELSE NA

(***************************** column names ********************************)
ColPlantID == <<"P","l","a","n","t"," ","I","D">>
ColName == <<"P","l","a","n","t"," ","n","a","m","e"," ",
             "(","E","n","g","l","i","s","h",")">>
ColOwner == <<"O","w","n","e","r">>
ColLocation == <<"L","o","c","a","t","i","o","n"," ",
                 "a","d","d","r","e","s","s">>
ColCountry == <<"C","o","u","n","t","r","y","/","A","r","e","a">>
ColRegion == <<"R","e","g","i","o","n">>
ColCoordinates == <<"C","o","o","r","d","i","n","a","t","e","s">>
ColAnnounced == <<"A","n","n","o","u","n","c","e","d"," ","d","a","t","e">>
ColStart == <<"S","t","a","r","t"," ","d","a","t","e">>
ColLatitudeCap == <<"L","a","t","i","t","u","d","e">>
ColLongitudeCap == <<"L","o","n","g","i","t","u","d","e">>
ColLatitude == <<"l","a","t","i","t","u","d","e">>
ColLongitude == <<"l","o","n","g","i","t","u","d","e">>
ColWorkforce == <<"W","o","r","k","f","o","r","c","e"," ","s","i","z","e">>
ColTotalCapacity == <<"T","o","t","a","l"," ","c","a","p","a","c","i","t","y",
                      " ","(","t","t","p","a",")">>
WordCapacity == <<"c","a","p","a","c","i","t","y">>
WordUnnamed == <<"u","n","n","a","m","e","d">>

(***************************** tables **************************************)
\* the name not bound to a DataFrame yet (every DataFrame the model reads
\* has columns, so none equals it)
NoTable == [cols |-> <<>>, rows |-> <<>>]

HasCol(d, c) == \E i \in 1..Len(d.cols) : d.cols[i] = c

\* position of the (first) column named c
ColIdx(d, c) ==
  CHOOSE i \in 1..Len(d.cols) :
    d.cols[i] = c /\ \A j \in 1..(i - 1) : d.cols[j] # c

\* df[c], as the sequence of the rows' cells
Column(d, c) == [r \in 1..Len(d.rows) |-> d.rows[r][ColIdx(d, c)]]

RemoveAt(s, i) == SubSeq(s, 1, i - 1) \o SubSeq(s, i + 1, Len(s))

\* df.drop(columns=[df.columns[i]])
DropColumn(d, i) ==
  [cols |-> RemoveAt(d.cols, i),
   rows |-> [r \in 1..Len(d.rows) |-> RemoveAt(d.rows[r], i)]]

\* df.rename(columns={old: new})
RenameColumn(d, old, new) ==
  [d EXCEPT !.cols = [i \in 1..Len(d.cols) |->
                        IF d.cols[i] = old THEN new ELSE d.cols[i]]]

\* df[c] = series: replaces the column in place, or appends a new one
SetColumn(d, c, series) ==
  IF HasCol(d, c)
  THEN [d EXCEPT !.rows = [r \in 1..Len(d.rows) |->
                             [d.rows[r] EXCEPT ![ColIdx(d, c)] = series[r]]]]
  ELSE [cols |-> Append(d.cols, c),
        rows |-> [r \in 1..Len(d.rows) |-> Append(d.rows[r], series[r])]]

(************************ _standardize_columns *****************************)
\* _extract_lat_lon without the len(parts) == 2 test
ExtractLatLonAnyParts(value) ==
  IF isna(value) THEN <<NA, NA>>
  ELSE IF value.t = "str" /\ contains(value.s, <<",">>)
       THEN LET parts == split(value.s, ",")
                a == float(strip(parts[1]))
                b == float(strip(parts[2]))
            IN  IF a.ok /\ b.ok THEN <<Num(a.v), Num(b.v)>> ELSE <<NA, NA>>
       ELSE <<NA, NA>>

_extract_lat_lon(value) ==
  IF isna(value) THEN <<NA, NA>>
  ELSE IF value.t = "str" /\ contains(value.s, <<",">>)
       THEN LET parts == split(value.s, ",")
            IN  IF Len(parts) = 2
                THEN LET a == float(strip(parts[1]))
                         b == float(strip(parts[2]))
                     IN  IF a.ok /\ b.ok THEN <<Num(a.v), Num(b.v)>>
                         ELSE <<NA, NA>>
                ELSE <<NA, NA>>
       ELSE <<NA, NA>>

\* "capacity" in c.lower()
IsCapacityLike(c) == contains(lower(c), WordCapacity)

\* sum of the non-missing cells, missing below min_count of them
RECURSIVE SumCells(_)
SumCells(s) ==
  IF s = <<>> THEN 0
  ELSE (IF isna(s[1]) THEN 0 ELSE s[1].n) + SumCells(Tail(s))

CountCells(s) == Cardinality({i \in 1..Len(s) : ~isna(s[i])})

SumMinCount(s, min_count) ==
  IF CountCells(s) < min_count THEN NA ELSE Num(SumCells(s))

\* lines 16-22
StripAndDropIndex(d) ==
  LET d1 == [d EXCEPT !.cols = [i \in 1..Len(d.cols) |-> strip(d.cols[i])]]
  IN  IF Len(d1.cols) > 0
         /\ (d1.cols[1] = <<>> \/ startswith(lower(d1.cols[1]), WordUnnamed))
      THEN DropColumn(d1, 1)
      ELSE d1

\* lines 25-28
NormalizeLatLon(d) ==
  LET d1 == IF HasCol(d, ColLatitudeCap) /\ ~HasCol(d, ColLatitude)
            THEN RenameColumn(d, ColLatitudeCap, ColLatitude) ELSE d
  IN  IF HasCol(d1, ColLongitudeCap) /\ ~HasCol(d1, ColLongitude)
      THEN RenameColumn(d1, ColLongitudeCap, ColLongitude) ELSE d1

\* lines 31-51
ExtractCoordinates(d) ==
  IF HasCol(d, ColCoordinates)
     /\ (~HasCol(d, ColLatitude) \/ ~HasCol(d, ColLongitude))
  THEN LET coords == Column(d, ColCoordinates)
           latlon == [r \in 1..Len(d.rows) |-> _extract_lat_lon(coords[r])]
           d1 == IF ~HasCol(d, ColLatitude)
                 THEN SetColumn(d, ColLatitude,
                                [r \in 1..Len(d.rows) |-> latlon[r][1]])
                 ELSE d
       IN  IF ~HasCol(d1, ColLongitude)
           THEN SetColumn(d1, ColLongitude,
                          [r \in 1..Len(d.rows) |-> latlon[r][2]])
           ELSE d1
  ELSE d

\* lines 54-60 without min_count=1
BuildTotalCapacityNoMinCount(d) ==
  LET cap_cols == SelectSeq(d.cols, IsCapacityLike)
  IN  IF cap_cols # <<>>
      THEN SetColumn(d, ColTotalCapacity,
             [r \in 1..Len(d.rows) |->
                SumMinCount([k \in 1..Len(cap_cols) |->
                               to_numeric(d.rows[r][ColIdx(d, cap_cols[k])])],
                            0)])
      ELSE d

\* lines 54-60
BuildTotalCapacity(d) ==
  LET cap_cols == SelectSeq(d.cols, IsCapacityLike)
  IN  IF cap_cols # <<>>
      THEN SetColumn(d, ColTotalCapacity,
             [r \in 1..Len(d.rows) |->
                SumMinCount([k \in 1..Len(cap_cols) |->
                               to_numeric(d.rows[r][ColIdx(d, cap_cols[k])])],
                            1)])
      ELSE d

_standardize_columns(d) ==
  BuildTotalCapacity(ExtractCoordinates(NormalizeLatLon(StripAndDropIndex(d))))

(************************ _aggregate_duplicates *****************************)
InSeq(s, x) == \E i \in 1..Len(s) : s[i] = x

\* lines 66-79 with the coordinates left out of the composite key
GroupKeyNoCoordinates(d) ==
  IF HasCol(d, ColPlantID) THEN <<ColPlantID>>
  ELSE LET k == SelectSeq(<<ColName, ColOwner, ColCountry>>,
                          LAMBDA c : HasCol(d, c))
       IN  IF k # <<>> THEN k ELSE <<d.cols[1]>>

\* lines 66-79
GroupKey(d) ==
  IF HasCol(d, ColPlantID) THEN <<ColPlantID>>
  ELSE LET k == SelectSeq(<<ColName, ColOwner, ColLatitude, ColLongitude,
                            ColCountry>>,
                          LAMBDA c : HasCol(d, c))
       IN  IF k # <<>> THEN k ELSE <<d.cols[1]>>

\* lines 82-89
NumericSum(d) ==
  (IF HasCol(d, ColTotalCapacity) THEN <<ColTotalCapacity>> ELSE <<>>)
  \o SelectSeq(d.cols, LAMBDA c : IsCapacityLike(c) /\ c # ColTotalCapacity)

\* a dict as a sequence of <<key, value>> in insertion order
DictHas(a, c) == \E i \in 1..Len(a) : a[i][1] = c

\* a[c] = how
DictSet(a, c, how) ==
  IF DictHas(a, c)
  THEN [i \in 1..Len(a) |-> IF a[i][1] = c THEN <<c, how>> ELSE a[i]]
  ELSE Append(a, <<c, how>>)

RECURSIVE DictSetAll(_, _, _)
DictSetAll(a, cs, how) ==
  IF cs = <<>> THEN a
  ELSE DictSetAll(DictSet(a, cs[1], how), Tail(cs), how)

\* the columns of lines 98-109
FirstFields == <<ColName, ColOwner, ColLocation, ColCountry, ColRegion,
                 ColCoordinates, ColAnnounced, ColStart, ColLatitude,
                 ColLongitude>>

\* lines 91-111 without lines 94-95
AggSpecNoWorkforceMax(d) ==
  LET key == GroupKey(d)
      nonkey == SelectSeq(d.cols, LAMBDA c : ~InSeq(key, c))
      a0 == [i \in 1..Len(nonkey) |-> <<nonkey[i], "first">>]
      a1 == DictSetAll(a0, NumericSum(d), "sum")
  IN  DictSetAll(a1, SelectSeq(FirstFields, LAMBDA c : DictHas(a1, c)),
                 "first")

\* lines 91-111
AggSpec(d) ==
  LET key == GroupKey(d)
      nonkey == SelectSeq(d.cols, LAMBDA c : ~InSeq(key, c))
      a0 == [i \in 1..Len(nonkey) |-> <<nonkey[i], "first">>]
      a1 == DictSetAll(a0, NumericSum(d), "sum")
      a2 == IF HasCol(d, ColWorkforce)
            THEN DictSet(a1, ColWorkforce, "max") ELSE a1
  IN  DictSetAll(a2, SelectSeq(FirstFields, LAMBDA c : DictHas(a2, c)),
                 "first")

\* order of strings by code point
RECURSIVE StrLess(_, _)
StrLess(a, b) ==
  IF b = <<>> THEN FALSE
  ELSE IF a = <<>> THEN TRUE
  ELSE IF a[1] # b[1] THEN CharRank(a[1]) < CharRank(b[1])
  ELSE StrLess(Tail(a), Tail(b))

\* order of the values of one key column: missing values last
ValLess(a, b) ==
  IF isna(a) THEN FALSE
  ELSE IF isna(b) THEN TRUE
  ELSE IF a.t = "num" /\ b.t = "num" THEN a.n < b.n
  ELSE IF a.t = "str" /\ b.t = "str" THEN StrLess(a.s, b.s)
  ELSE a.t = "num"

RECURSIVE KeyLess(_, _)
KeyLess(a, b) ==
  IF a = <<>> THEN FALSE
  ELSE IF a[1] # b[1] THEN ValLess(a[1], b[1])
  ELSE KeyLess(Tail(a), Tail(b))

\* groupby's sort=True: the distinct keys in ascending order
RECURSIVE SortKeys(_)
SortKeys(S) ==
  IF S = {} THEN <<>>
  ELSE LET m == CHOOSE x \in S : \A y \in S \ {x} : KeyLess(x, y)
       IN  <<m>> \o SortKeys(S \ {m})

\* the key of row r of d
RowKey(d, key, r) == [k \in 1..Len(key) |-> d.rows[r][ColIdx(d, key[k])]]

\* dropna: whether rows with a missing key value are left out
GroupKeys(d, key, dropna) ==
  {RowKey(d, key, r) : r \in {q \in 1..Len(d.rows) :
     ~dropna \/ \A k \in 1..Len(key) : ~isna(RowKey(d, key, q)[k])}}

\* the cells of column c in the rows of group g, in input order
GroupCells(d, key, g, c) ==
  LET members == SelectSeq([r \in 1..Len(d.rows) |-> r],
                           LAMBDA r : RowKey(d, key, r) = g)
  IN  [i \in 1..Len(members) |-> d.rows[members[i]][ColIdx(d, c)]]

\* the first cell, missing or not
AggFirstRow(cells) == cells[1]

\* GroupBy.first(): the first non-missing cell
AggFirst(cells) ==
  LET present == SelectSeq(cells, LAMBDA v : ~isna(v))
  IN  IF present = <<>> THEN NA ELSE present[1]

\* GroupBy.sum(): min_count defaults to 0
AggSum(cells) == SumMinCount(cells, 0)

\* GroupBy.max(): missing cells skipped, missing when there is none
AggMax(cells) ==
  LET present == {i \in 1..Len(cells) : ~isna(cells[i])}
  IN  IF present = {} THEN NA
      ELSE Num(CHOOSE m \in {cells[i].n : i \in present} :
                 \A i \in present : cells[i].n <= m)

Aggregate(how, cells) ==
  IF how = "sum" THEN AggSum(cells)
  ELSE IF how = "max" THEN AggMax(cells)
  ELSE AggFirst(cells)

\* line 113 with groupby's default dropna=True
GroupByAggDropNA(d, key, agg) ==
  LET keys == SortKeys(GroupKeys(d, key, TRUE))
  IN  [cols |-> key \o [i \in 1..Len(agg) |-> agg[i][1]],
       rows |-> [g \in 1..Len(keys) |->
                   keys[g] \o [i \in 1..Len(agg) |->
                     Aggregate(agg[i][2],
                               GroupCells(d, key, keys[g], agg[i][1]))]]]

\* line 113: df.groupby(key, dropna=False, as_index=False).agg(agg)
GroupByAgg(d, key, agg) ==
  LET keys == SortKeys(GroupKeys(d, key, FALSE))
  IN  [cols |-> key \o [i \in 1..Len(agg) |-> agg[i][1]],
       rows |-> [g \in 1..Len(keys) |->
                   keys[g] \o [i \in 1..Len(agg) |->
                     Aggregate(agg[i][2],
                               GroupCells(d, key, keys[g], agg[i][1]))]]]

_aggregate_duplicates(d) == GroupByAgg(d, GroupKey(d), AggSpec(d))

(***************************** input tables *******************************)
StrP1 == <<"P","1">>
StrP2 == <<"P","2">>
StrEU == <<"E","U">>
StrAS == <<"A","S">>
StrAcme == <<"A","c","m","e">>
StrX == <<"x">>
Str7 == <<"7">>
CoordGood == <<"4","1",","," ","2","0">>
CoordThree == <<"b","a","d",",","v","a","l","u","e",",","x">>
CoordNoComma == <<"n","o","c","o","m","m","a">>
CoordBadPart == <<"4","x",",","2">>
CoordEmptyPart == <<"4","1",",">>
CoordThreeNumbers == <<"1",",","2",",","3">>

ColUnnamed0 == <<"U","n","n","a","m","e","d",":"," ","0">>
ColUnnamed1 == <<"U","n","n","a","m","e","d",":"," ","1">>
ColPlantIDPadded == <<" ","P","l","a","n","t"," ","I","D"," ">>
ColBOF == <<"B","O","F"," ","c","a","p","a","c","i","t","y">>
ColEAF == <<"E","A","F"," ","C","a","p","a","c","i","t","y">>

\* every row over the columns' cell domains
RECURSIVE RowsOf(_)
RowsOf(doms) ==
  IF doms = <<>> THEN {<<>>}
  ELSE {<<v>> \o r : v \in doms[1], r \in RowsOf(Tail(doms))}

\* every table of a schema with at most MaxRows rows
TablesOf(schema) ==
  UNION {{[cols |-> schema.cols, rows |-> rs] :
            rs \in [1..n -> RowsOf(schema.doms)]} : n \in 0..MaxRows}

\* what pd.read_csv may return for plants_processed.csv: a table keyed by
\* "Plant ID" with capacity columns, one keyed by a padded " Plant ID "
\* behind an index column and beside an Owner, one keyed by the composite
\* fallback (Owner and the coordinates derived from Coordinates), and one
\* with none of these columns.  Capacity and workforce columns are numeric,
\* a key column is neither, and every table has a column outside its key.
RawSchemas ==
  { [cols |-> <<ColPlantID, ColBOF, ColEAF>>,
     doms |-> <<{NA, Str(StrP1), Str(StrP2)}, {NA, Num(100), Num(50)},
                {NA, Num(5)}>>],
    [cols |-> <<ColUnnamed0, ColPlantIDPadded, ColOwner, ColWorkforce>>,
     doms |-> <<{Num(0)}, {NA, Str(StrP1)}, {NA, Str(StrAcme)},
                {NA, Num(200), Num(350)}>>],
    [cols |-> <<ColOwner, ColCoordinates, ColRegion>>,
     doms |-> <<{NA, Str(StrAcme)}, {Str(CoordGood), Str(CoordNoComma)},
                {NA, Str(StrEU), Str(StrAS)}>>],
    [cols |-> <<ColRegion, ColWorkforce>>,
     doms |-> <<{NA, Str(StrEU), Str(StrAS)}, {NA, Num(200), Num(350)}>>] }

RawTables == UNION {TablesOf(s) : s \in RawSchemas}

(***************************** the script **********************************)
FileName == <<"p","l","a","n","t","s","_","p","r","o","c","e","s","s","e","d",
              ".","c","s","v">>

\* the message of lines 117-119
NotFoundMessage ==
  FileName \o <<" ","n","o","t"," ","f","o","u","n","d","."," ",
                "P","l","e","a","s","e"," ","p","l","a","c","e"," ",
                "t","h","e"," ","f","i","l","e"," ","n","e","x","t"," ",
                "t","o"," ","t","h","e"," ","a","p","p",".">>

NoError == [type |-> "none", msg |-> <<>>]

\* df.empty
IsEmpty(d) == Len(d.rows) = 0 \/ Len(d.cols) = 0

Init ==
  /\ pc = "set_page_config"
  /\ fileExists \in BOOLEAN
  /\ rendered = <<>>
  /\ raw = NoTable
  /\ std = NoTable
  /\ df = NoTable
  /\ error = NoError
  /\ tbl = NoTable
  /\ once = NoTable
  /\ twice = NoTable

\* line 6
SetPageConfig ==
  /\ pc = "set_page_config"
  /\ rendered' = Append(rendered, "set_page_config")
  /\ pc' = "title"
  /\ UNCHANGED <<fileExists, raw, std, df, error, tbl, once, twice>>

\* line 7
Title ==
  /\ pc = "title"
  /\ rendered' = Append(rendered, "title")
  /\ pc' = "write"
  /\ UNCHANGED <<fileExists, raw, std, df, error, tbl, once, twice>>

\* line 8
Write ==
  /\ pc = "write"
  /\ rendered' = Append(rendered, "write")
  /\ pc' = "load_data"
  /\ UNCHANGED <<fileExists, raw, std, df, error, tbl, once, twice>>

\* load_data returning an empty table for the absent file
LoadDataMissingReturnsEmpty ==
  /\ pc = "load_data"
  /\ ~fileExists
  /\ df' = [cols |-> <<>>, rows |-> <<>>]
  /\ pc' = "loaded"
  /\ UNCHANGED <<fileExists, rendered, raw, std, error, tbl, once, twice>>

\* line 127 calling lines 13-124, the file absent: the exception leaves the
\* script
LoadDataMissing ==
  /\ pc = "load_data"
  /\ ~fileExists
  /\ error' = [type |-> "FileNotFoundError", msg |-> NotFoundMessage]
  /\ pc' = "raised"
  /\ UNCHANGED <<fileExists, rendered, raw, std, df, tbl, once, twice>>

\* line 127 calling lines 13-124, the file present
LoadDataPresent ==
  /\ pc = "load_data"
  /\ fileExists
  /\ \E t \in RawTables :
       /\ raw' = t
       /\ std' = _standardize_columns(t)
       /\ df' = _aggregate_duplicates(std')
  /\ pc' = "loaded"
  /\ UNCHANGED <<fileExists, rendered, error, tbl, once, twice>>

load_data == LoadDataMissing \/ LoadDataPresent

\* lines 128-129
StopIfEmpty ==
  /\ pc = "loaded"
  /\ pc' = IF IsEmpty(df) THEN "stopped" ELSE "sidebar"
  /\ UNCHANGED <<fileExists, rendered, raw, std, df, error, tbl, once, twice>>

\* lines 132-171: one widget for each filter column the table has
Sidebar ==
  /\ pc = "sidebar"
  /\ rendered' = rendered \o <<"sidebar.header">>
       \o (IF HasCol(df, ColOwner) THEN <<"multiselect Company">> ELSE <<>>)
       \o (IF HasCol(df, ColRegion) THEN <<"multiselect Region">> ELSE <<>>)
       \o (IF HasCol(df, ColCountry) THEN <<"multiselect Country">> ELSE <<>>)
       \o (IF HasCol(df, ColTotalCapacity)
              /\ \E r \in 1..Len(df.rows) :
                   ~isna(df.rows[r][ColIdx(df, ColTotalCapacity)])
           THEN <<"slider Capacity range (ttpa)">> ELSE <<>>)
  /\ pc' = "metrics"
  /\ UNCHANGED <<fileExists, raw, std, df, error, tbl, once, twice>>

\* lines 174-183 with the widgets untouched: no selection, the slider at its
\* default range, which keeps the rows whose capacity is not missing
Filtered(d) ==
  IF HasCol(d, ColTotalCapacity)
     /\ \E r \in 1..Len(d.rows) : ~isna(d.rows[r][ColIdx(d, ColTotalCapacity)])
  THEN [d EXCEPT !.rows = SelectSeq(d.rows,
          LAMBDA row : ~isna(row[ColIdx(d, ColTotalCapacity)]))]
  ELSE d

\* lines 186-196
Metrics ==
  /\ pc = "metrics"
  /\ rendered' = rendered \o <<"metric Total plants",
                               "metric Total capacity (ttpa)",
                               "metric Distinct companies">>
  /\ pc' = "map"
  /\ UNCHANGED <<fileExists, raw, std, df, error, tbl, once, twice>>

\* lines 199-218
Map ==
  /\ pc = "map"
  /\ LET f == Filtered(df)
     IN  rendered' = Append(rendered,
           IF HasCol(f, ColLatitude) /\ HasCol(f, ColLongitude)
              /\ \E r \in 1..Len(f.rows) :
                   \/ ~isna(f.rows[r][ColIdx(f, ColLatitude)])
                   \/ ~isna(f.rows[r][ColIdx(f, ColLongitude)])
           THEN "plotly_chart" ELSE "info")
  /\ pc' = "dataframe"
  /\ UNCHANGED <<fileExists, raw, std, df, error, tbl, once, twice>>

\* lines 221-227
DataTable ==
  /\ pc = "dataframe"
  /\ rendered' = rendered \o <<"subheader", "dataframe", "caption">>
  /\ pc' = "done"
  /\ UNCHANGED <<fileExists, raw, std, df, error, tbl, once, twice>>

Next ==
  \/ SetPageConfig
  \/ Title
  \/ Write
  \/ load_data
  \/ StopIfEmpty
  \/ Sidebar
  \/ Metrics
  \/ Map
  \/ DataTable

Spec == Init /\ [][Next]_vars

(******************* _standardize_columns on its own ***********************)
\* the tables _standardize_columns is applied to on its own: capacity
\* columns with numbers, numeric strings and other strings; an existing
\* total column; two unnamed columns; a Coordinates column beside every
\* combination of latitude and longitude columns.  The stripped column
\* names of a table are distinct.
StdSchemas ==
  { [cols |-> <<ColBOF, ColEAF>>,
     doms |-> <<{NA, Num(10), Str(StrX)}, {NA, Num(5), Str(Str7)}>>],
    [cols |-> <<ColTotalCapacity, ColBOF>>,
     doms |-> <<{NA, Num(10)}, {NA, Num(5)}>>],
    [cols |-> <<ColUnnamed0, ColUnnamed1, ColRegion>>,
     doms |-> <<{Num(0)}, {NA, Num(1)}, {NA, Str(StrEU)}>>],
    [cols |-> <<ColCoordinates>>,
     doms |-> <<{NA, Num(41), Str(CoordGood), Str(CoordThree),
                 Str(CoordNoComma), Str(CoordBadPart), Str(CoordEmptyPart),
                 Str(CoordThreeNumbers)}>>],
    [cols |-> <<ColCoordinates, ColLatitude>>,
     doms |-> <<{NA, Str(CoordGood), Str(CoordThree)}, {NA, Num(7)}>>],
    [cols |-> <<ColLongitudeCap, ColCoordinates>>,
     doms |-> <<{NA, Num(8)}, {NA, Str(CoordGood), Str(CoordBadPart)}>>],
    [cols |-> <<ColLatitudeCap, ColLongitudeCap, ColCoordinates>>,
     doms |-> <<{Num(7)}, {NA, Num(8)}, {Str(CoordGood), Str(CoordNoComma)}>>],
    [cols |-> <<ColLatitudeCap, ColLatitude, ColCoordinates>>,
     doms |-> <<{Num(7)}, {NA, Num(9)}, {NA, Str(CoordGood)}>>] }

StdTables == UNION {TablesOf(s) : s \in StdSchemas}

InitStd ==
  /\ pc = "standardize"
  /\ tbl \in StdTables
  /\ once = NoTable
  /\ twice = NoTable
  /\ fileExists = TRUE
  /\ rendered = <<>>
  /\ raw = NoTable
  /\ std = NoTable
  /\ df = NoTable
  /\ error = NoError

\* _standardize_columns(T)
StandardizeOnce ==
  /\ pc = "standardize"
  /\ once' = _standardize_columns(tbl)
  /\ pc' = "standardized"
  /\ UNCHANGED <<fileExists, rendered, raw, std, df, error, tbl, twice>>

\* _standardize_columns(_standardize_columns(T))
StandardizeTwice ==
  /\ pc = "standardized"
  /\ twice' = _standardize_columns(once)
  /\ pc' = "standardized twice"
  /\ UNCHANGED <<fileExists, rendered, raw, std, df, error, tbl, once>>

NextStd == StandardizeOnce \/ StandardizeTwice

SpecStd == InitStd /\ [][NextStd]_vars

(******************* properties of _standardize_columns ********************)
\* positions of the input columns whose stripped name is c
InputCols(c) == {i \in 1..Len(tbl.cols) : strip(tbl.cols[i]) = c}

InputCol(c) == CHOOSE i \in InputCols(c) : TRUE

\* positions of the capacity-like input columns that standardization keeps
CapInputs ==
  {i \in 1..Len(tbl.cols) :
     /\ contains(lower(tbl.cols[i]), WordCapacity)
     /\ HasCol(once, strip(tbl.cols[i]))}

\* <<column, number>> for the capacity-like cells of input row r that
\* coerce to a number
PresentCapValues(r) ==
  {<<i, to_numeric(tbl.rows[r][i]).n>> :
     i \in {j \in CapInputs : ~isna(to_numeric(tbl.rows[r][j]))}}

RECURSIVE SumPairs(_)
SumPairs(S) ==
  IF S = {} THEN 0
  ELSE LET x == CHOOSE y \in S : TRUE IN x[2] + SumPairs(S \ {x})

\* C3: with at least one capacity-like column, each row's derived
\* "Total capacity (ttpa)" is the sum of that row's capacity-like values that
\* coerce to a number, and is missing exactly when none does.
C3_TotalIsRowSum ==
  (pc = "standardized" /\ CapInputs # {}) =>
    /\ HasCol(once, ColTotalCapacity)
    /\ \A r \in 1..Len(tbl.rows) :
         LET total == once.rows[r][ColIdx(once, ColTotalCapacity)]
             vals == PresentCapValues(r)
         IN  /\ isna(total) <=> vals = {}
             /\ vals # {} => total = Num(SumPairs(vals))

\* the spec's example: A = [10, missing], B = [missing, 5] gives [10, 5]
C3_Witness ==
  /\ pc = "standardized"
  /\ tbl = [cols |-> <<ColBOF, ColEAF>>,
            rows |-> << <<Num(10), NA>>, <<NA, Num(5)>> >>]
  /\ Column(once, ColTotalCapacity) = <<Num(10), Num(5)>>

\* C4: standardizing the standardized table changes nothing.
C4_StandardizeIdempotent ==
  pc = "standardized twice" => twice = once

\* what the claim gives for one Coordinates value
CommaPositions(x) == {i \in 1..Len(x) : x[i] = ","}

ExpectedLatLon(v) ==
  IF v.t = "str" /\ Cardinality(CommaPositions(v.s)) = 1
  THEN LET k == CHOOSE i \in CommaPositions(v.s) : TRUE
           a == float(strip(SubSeq(v.s, 1, k - 1)))
           b == float(strip(SubSeq(v.s, k + 1, Len(v.s))))
       IN  IF a.ok /\ b.ok THEN <<Num(a.v), Num(b.v)>> ELSE <<NA, NA>>
  ELSE <<NA, NA>>

\* the input's latitude (longitude) column, under either spelling
InputLat ==
  IF InputCols(ColLatitude) # {} THEN InputCols(ColLatitude)
  ELSE InputCols(ColLatitudeCap)

InputLon ==
  IF InputCols(ColLongitude) # {} THEN InputCols(ColLongitude)
  ELSE InputCols(ColLongitudeCap)

\* C8: with a Coordinates column and latitude or longitude absent, a value
\* with exactly one comma and two numeric parts gives (lat, lon) and every
\* other value (missing, missing); the pair fills only the absent column and
\* an existing latitude or longitude keeps its values.
C8_CoordinatesFillAbsent ==
  (/\ pc = "standardized"
   /\ InputCols(ColCoordinates) # {}
   /\ (InputLat = {} \/ InputLon = {})) =>
    /\ HasCol(once, ColLatitude)
    /\ HasCol(once, ColLongitude)
    /\ \A r \in 1..Len(tbl.rows) :
         LET pair == ExpectedLatLon(tbl.rows[r][InputCol(ColCoordinates)])
             lat == once.rows[r][ColIdx(once, ColLatitude)]
             lon == once.rows[r][ColIdx(once, ColLongitude)]
         IN  /\ lat = IF InputLat = {} THEN pair[1]
                      ELSE tbl.rows[r][CHOOSE i \in InputLat : TRUE]
             /\ lon = IF InputLon = {} THEN pair[2]
                      ELSE tbl.rows[r][CHOOSE i \in InputLon : TRUE]

\* "41, 20" beside an existing latitude of 7: longitude becomes 20, the
\* latitude stays 7
C8_Witness ==
  /\ pc = "standardized"
  /\ tbl.cols = <<ColCoordinates, ColLatitude>>
  /\ \E r \in 1..Len(tbl.rows) :
       /\ tbl.rows[r] = <<Str(CoordGood), Num(7)>>
       /\ once.rows[r] = <<Str(CoordGood), Num(7), Num(20)>>

(************************ properties of load_data ***************************)
\* load_data has returned its table
Loaded ==
  pc \in {"loaded", "stopped", "sidebar", "metrics", "map", "dataframe",
          "done"}

\* load_data has just returned its table
Returned == pc = "loaded"

\* the grouping key of the standardized table
KeyCols == GroupKey(std)

\* the key of output row o
OutKey(o) == [k \in 1..Len(KeyCols) |-> df.rows[o][ColIdx(df, KeyCols[k])]]

\* the input rows of output row o's group
Members(o) ==
  {r \in 1..Len(std.rows) :
     RowKey(std, KeyCols, r) = OutKey(o)}

InCell(r, c) == std.rows[r][ColIdx(std, c)]

OutCell(o, c) == df.rows[o][ColIdx(df, c)]

\* the first input row of output row o's group
FirstMember(o) == CHOOSE r \in Members(o) : \A q \in Members(o) : r <= q

\* the group's rows whose cell in column c is not missing
PresentMembers(o, c) == {r \in Members(o) : ~isna(InCell(r, c))}

RECURSIVE SumColumn(_, _)
SumColumn(R, c) ==
  IF R = {} THEN 0
  ELSE LET r == CHOOSE x \in R : TRUE
       IN  InCell(r, c).n + SumColumn(R \ {r}, c)

HasMissingKey(r) ==
  \E k \in 1..Len(KeyCols) : isna(RowKey(std, KeyCols, r)[k])

\* C1: every key value of the input, a missing-key pattern included, is the
\* key of exactly one output row.
C1_OneRowPerKey ==
  Returned =>
    \A r \in 1..Len(std.rows) :
      Cardinality({o \in 1..Len(df.rows) :
                     OutKey(o) = RowKey(std, KeyCols, r)}) = 1

\* two input rows with the same missing key, in one output row
C1_Witness ==
  /\ Returned
  /\ \E r, q \in 1..Len(std.rows) :
       /\ r # q
       /\ HasMissingKey(r)
       /\ RowKey(std, KeyCols, r) = RowKey(std, KeyCols, q)
       /\ \E o \in 1..Len(df.rows) : Members(o) = {r, q}

\* the columns _aggregate_duplicates sums
SummedCols ==
  {c \in {std.cols[i] : i \in 1..Len(std.cols)} :
     IsCapacityLike(c)}

\* C2: an output row's total capacity, and each raw capacity column, is the
\* sum of the group's non-missing values and is missing when the group has
\* none.
C2_GroupSumMissingWhenAllMissing ==
  Returned =>
    \A o \in 1..Len(df.rows) : \A c \in SummedCols :
      OutCell(o, c) = IF PresentMembers(o, c) = {} THEN NA
                      ELSE Num(SumColumn(PresentMembers(o, c), c))

\* the columns that are neither key, capacity-like nor "Workforce size"
FirstCols ==
  {c \in {std.cols[i] : i \in 1..Len(std.cols)} :
     ~InSeq(KeyCols, c) /\ ~IsCapacityLike(c) /\ c # ColWorkforce}

\* C5 as stated: such a column takes the value of the group's first row.
C5_FirstRowValue ==
  Returned =>
    \A o \in 1..Len(df.rows) : \A c \in FirstCols :
      OutCell(o, c) = InCell(FirstMember(o), c)

\* C5 amended: such a column takes the first non-missing value of the group
\* in input order, and is missing when the group has none.
C5_FirstNonMissingValue ==
  Returned =>
    \A o \in 1..Len(df.rows) : \A c \in FirstCols :
      OutCell(o, c) =
        IF PresentMembers(o, c) = {} THEN NA
        ELSE InCell(CHOOSE r \in PresentMembers(o, c) :
                      \A q \in PresentMembers(o, c) : r <= q, c)

\* a group of two rows whose first Region is missing and second is not
C5_Witness ==
  /\ Returned
  /\ \E o \in 1..Len(df.rows) :
       /\ Cardinality(Members(o)) = 2
       /\ ColRegion \in FirstCols
       /\ isna(InCell(FirstMember(o), ColRegion))
       /\ OutCell(o, ColRegion) = Str(StrEU)

\* C6: an output row's "Workforce size" is the largest non-missing value of
\* its group, and is missing when the group has none.
C6_WorkforceIsGroupMax ==
  (Returned /\ HasCol(std, ColWorkforce)) =>
    \A o \in 1..Len(df.rows) :
      LET w == OutCell(o, ColWorkforce)
          present == PresentMembers(o, ColWorkforce)
      IN  /\ isna(w) <=> present = {}
          /\ present # {} =>
               /\ \E r \in present : InCell(r, ColWorkforce) = w
               /\ \A r \in present : InCell(r, ColWorkforce).n <= w.n

\* a group with workforce 200 then 350 gives 350
C6_Witness ==
  /\ Returned
  /\ HasCol(std, ColWorkforce)
  /\ \E o \in 1..Len(df.rows) :
       /\ Cardinality(Members(o)) = 2
       /\ InCell(FirstMember(o), ColWorkforce) = Num(200)
       /\ OutCell(o, ColWorkforce) = Num(350)

\* the key the claim gives, as a set of columns
CompositeCols == {ColName, ColOwner, ColLatitude, ColLongitude, ColCountry}

ColSet(d) == {d.cols[i] : i \in 1..Len(d.cols)}

ExpectedKey ==
  IF ColPlantID \in ColSet(std) THEN {ColPlantID}
  ELSE IF CompositeCols \cap ColSet(std) # {}
       THEN CompositeCols \cap ColSet(std)
       ELSE {std.cols[1]}

\* a row's values on a set of columns
Projection(d, row, cs) == [c \in cs |-> row[ColIdx(d, c)]]

\* C7: the grouping key is "Plant ID" alone when that column exists, else
\* the composite columns that exist, else the first column: the output has
\* one row for each distinct value of that key, so rows equal on it collapse.
C7_KeyPriority ==
  Returned =>
    /\ ExpectedKey \subseteq ColSet(df)
    /\ Len(df.rows) =
         Cardinality({Projection(std, std.rows[r],
                                 ExpectedKey) :
                        r \in 1..Len(std.rows)})
    /\ \A r \in 1..Len(std.rows) : \E o \in 1..Len(df.rows) :
         Projection(df, df.rows[o], ExpectedKey) =
           Projection(std, std.rows[r], ExpectedKey)

\* without "Plant ID": two rows equal on Owner, latitude and longitude with
\* different Region become one row
C7_Witness ==
  /\ Returned
  /\ ExpectedKey = {ColOwner, ColLatitude, ColLongitude}
  /\ Len(std.rows) = 2
  /\ InCell(1, ColRegion) # InCell(2, ColRegion)
  /\ ~isna(InCell(1, ColLatitude))
  /\ Len(df.rows) = 1

\* C9: with plants_processed.csv absent load_data raises an error naming
\* the file and no table is read, standardized, aggregated or returned.
C9_MissingFileRaises ==
  [][(pc = "load_data" /\ ~fileExists) =>
       /\ pc' = "raised"
       /\ error'.type = "FileNotFoundError"
       /\ contains(error'.msg, FileName)
       /\ raw' = NoTable
       /\ std' = NoTable
       /\ df' = NoTable]_vars

C9_Witness == pc = "raised" /\ ~fileExists /\ df = NoTable

\* C10: nothing is rendered before load_data has returned, so nothing is
\* rendered when it raises.
C10_NothingRenderedBeforeLoad ==
  ~Loaded => rendered = <<>>

====
